---------------------------- MODULE Spec2Model ----------------------------
(***************************************************************************)
(* BloomTrack forecasting core: the model selector, the three model        *)
(* families behind PredictiveModel.train / predict, the forecast           *)
(* orchestrator (TimeSeriesPredictor) and the model persistence store      *)
(* (ModelManager).                                                         *)
(*                                                                         *)
(* Time is counted in half days, so that a timestamp carries a time of     *)
(* day which strftime('%Y-%m-%d') drops.  Numeric series values are not    *)
(* modelled: whatever the statistics libraries return for them (the ADF    *)
(* p-value, the lag-1 autocorrelation, each fit's success and AIC) is an   *)
(* input of the call, drawn from a small set.                              *)
(***************************************************************************)
EXTENDS Integers, Sequences, FiniteSets, TLC

VARIABLES
    avail,        \* families importable in this process (ARIMA_AVAILABLE, ...)
    now,          \* the wall clock, in half days
    created,      \* model_type the PredictiveModel was constructed with
    obj,          \* the PredictiveModel's fields
    last,         \* the last call on obj: its inputs, its outcome, obj before it
    calls,        \* number of train() calls made on obj
    trained_ok,   \* whether a train() call on obj has returned normally
    pipe,         \* the orchestrator: predict_all_sources / predict_data_source
    store,        \* the ModelManager: blobs, index file, in-memory index
    mcall,        \* the last ModelManager call and what was saved per key
    micro,        \* the wall clock's microsecond part (now holds the half days)
    run,          \* a save_model or delete_model call that is under way
    xt,           \* the last extract_time_series_data call: its input, its rows
    http,         \* the last request to the prediction router and its response
    peer          \* a second ModelManager on the same models_dir: its index

vars == <<avail, now, created, obj, last, calls, trained_ok, pipe, store, mcall, micro,
          run, xt, http, peer>>

----------------------------------------------------------------------------
(* Bounds of the model *)

\* longest dataset (rows) a call is given
MaxN == 31
\* longest forecast horizon
MaxSteps == 3
\* the wall clock's value, in half days since 2020-01-01 00:00
NowTs == 81

(* Program constants *)

\* timedelta(days=1) and freq='D', in half days
OneDay == 2
\* pd.date_range(start='2020-01-01', ...): the origin of the time axis
Epoch2020 == 0
\* len(data) < 3: "Insufficient data for training"
MinSamples == 3
\* n_samples < 10: ARIMA on small datasets; also the ADF test's minimum
SmallN == 10
\* n_samples >= 30: LSTM
LargeN == 30
\* len(series) < 12: no seasonality
SeasonN == 12
\* abs(autocorr) > 0.3, in tenths
AcThreshold == 3
\* result[1] < 0.05, in hundredths
PThreshold == 5
\* create_sequences default / min(10, n // 3)
MaxSeqLen == 10
\* len(X) < 5: "Insufficient data for LSTM training"
MinWindows == 5

Families == {"arima", "prophet", "lstm"}
Modes == Families \cup {"auto"}
NoFamily == "none"

----------------------------------------------------------------------------
(* Datasets.  A dataset is described by its number of rows, the order of   *)
(* its dates, whether the value of its latest-dated row is missing (NaN)   *)
(* and whether train() is given its date column.                           *)

RowDate(d, i) ==
    CASE d.order = "asc"  -> d.base + OneDay * (i - 1)
      [] d.order = "desc" -> d.base + OneDay * (d.rows - i)
      [] OTHER            -> d.base

Rows(d) ==
    [i \in 1..d.rows |->
        [date |-> RowDate(d, i), ok |-> ~(d.miss /\ i = (IF d.order = "asc" THEN d.rows ELSE 1))]]

\* r put after the rows of the sorted s that are not later than it
InsertByDate(r, s) ==
    IF s = <<>> \/ s[Len(s)].date <= r.date THEN Append(s, r)
    ELSE LET k == Cardinality({i \in 1..Len(s) : s[i].date <= r.date})
         IN  SubSeq(s, 1, k) \o <<r>> \o SubSeq(s, k + 1, Len(s))

RECURSIVE SortFrom(_, _, _)
SortFrom(s, i, acc) ==
    IF i > Len(s) THEN acc ELSE SortFrom(s, i + 1, InsertByDate(s[i], acc))

\* data.dropna(subset=[target_column])
DropNa(s) == SelectSeq(s, LAMBDA r : r.ok)

\* train(), lines 173-178: the frame the families are trained on
Prepare(d) == DropNa(IF d.dated THEN SortFrom(Rows(d), 1, <<>>) ELSE Rows(d))

\* data[target_column]: the series with its index (a DatetimeIndex when the
\* date column was set as index, a RangeIndex otherwise)
SeriesOf(d) ==
    LET p == Prepare(d)
    IN  [dated |-> d.dated,
         index |-> IF d.dated THEN [i \in 1..Len(p) |-> p[i].date]
                   ELSE [i \in 1..Len(p) |-> i - 1]]

----------------------------------------------------------------------------
(* Model Selector *)

AdfRaises == -1

\* _detect_seasonality: ac is the lag-1 autocorrelation in tenths
_detect_seasonality(n, ac) ==
    IF n < SeasonN THEN FALSE
    ELSE (IF ac < 0 THEN -ac ELSE ac) > AcThreshold

\* _check_stationarity without the test of the length
_check_stationarity_anylen(n, adf, AV) ==
    IF "arima" \notin AV THEN FALSE
    ELSE IF adf = AdfRaises THEN FALSE
    ELSE adf < PThreshold

\* _check_stationarity: adf is the ADF test's p-value in hundredths, or
\* AdfRaises when adfuller() raises
_check_stationarity(n, adf, AV) ==
    IF "arima" \notin AV \/ n < SmallN THEN FALSE
    ELSE IF adf = AdfRaises THEN FALSE
    ELSE adf < PThreshold

\* select_best_model with the seasonality rule tried before the LSTM rule
select_best_model_swapped(model_type, n, has_seasonality, is_stationary, AV) ==
    IF model_type # "auto" THEN
        IF model_type = "lstm" /\ "lstm" \notin AV
            THEN (IF "arima" \in AV THEN "arima" ELSE "prophet")
        ELSE IF model_type = "prophet" /\ "prophet" \notin AV
            THEN (IF "arima" \in AV THEN "arima" ELSE "lstm")
        ELSE IF model_type = "arima" /\ "arima" \notin AV
            THEN (IF "prophet" \in AV THEN "prophet" ELSE "lstm")
        ELSE model_type
    ELSE IF n < SmallN /\ "arima" \in AV THEN "arima"
    ELSE IF has_seasonality /\ "prophet" \in AV THEN "prophet"
    ELSE IF n >= LargeN /\ "lstm" \in AV /\ ~is_stationary THEN "lstm"
    ELSE IF "arima" \in AV THEN "arima"
    ELSE IF "prophet" \in AV THEN "prophet"
    ELSE IF "lstm" \in AV THEN "lstm"
    ELSE NoFamily

\* select_best_model falling back to the first family of the chain without
\* looking at its availability
select_best_model_nochain(model_type, n, has_seasonality, is_stationary, AV) ==
    IF model_type # "auto" THEN
        IF model_type = "lstm" /\ "lstm" \notin AV THEN "arima"
        ELSE IF model_type = "prophet" /\ "prophet" \notin AV THEN "arima"
        ELSE IF model_type = "arima" /\ "arima" \notin AV THEN "prophet"
        ELSE model_type
    ELSE IF n < SmallN /\ "arima" \in AV THEN "arima"
    ELSE IF n >= LargeN /\ "lstm" \in AV /\ ~is_stationary THEN "lstm"
    ELSE IF has_seasonality /\ "prophet" \in AV THEN "prophet"
    ELSE IF "arima" \in AV THEN "arima"
    ELSE IF "prophet" \in AV THEN "prophet"
    ELSE IF "lstm" \in AV THEN "lstm"
    ELSE NoFamily

\* the family that the warning logged by select_best_model says it falls
\* back to; NoFamily when it logs no warning
FallbackWarning(model_type, AV) ==
    IF model_type = "lstm" /\ "lstm" \notin AV THEN "arima"
    ELSE IF model_type = "prophet" /\ "prophet" \notin AV THEN "arima"
    ELSE IF model_type = "arima" /\ "arima" \notin AV THEN "prophet"
    ELSE NoFamily

\* select_best_model: the family, or NoFamily when it raises ValueError
select_best_model(model_type, n, has_seasonality, is_stationary, AV) ==
    IF model_type # "auto" THEN
        IF model_type = "lstm" /\ "lstm" \notin AV
            THEN (IF "arima" \in AV THEN "arima" ELSE "prophet")
        ELSE IF model_type = "prophet" /\ "prophet" \notin AV
            THEN (IF "arima" \in AV THEN "arima" ELSE "lstm")
        ELSE IF model_type = "arima" /\ "arima" \notin AV
            THEN (IF "prophet" \in AV THEN "prophet" ELSE "lstm")
        ELSE model_type
    ELSE IF n < SmallN /\ "arima" \in AV THEN "arima"
    ELSE IF n >= LargeN /\ "lstm" \in AV /\ ~is_stationary THEN "lstm"
    ELSE IF has_seasonality /\ "prophet" \in AV THEN "prophet"
    ELSE IF "arima" \in AV THEN "arima"
    ELSE IF "prophet" \in AV THEN "prophet"
    ELSE IF "lstm" \in AV THEN "lstm"
    ELSE NoFamily

----------------------------------------------------------------------------
(* PredictiveModel: the object and the three families *)

NoData == [rows |-> 0, order |-> "asc", miss |-> FALSE, dated |-> FALSE,
           base |-> Epoch2020]
NoModel == [family |-> NoFamily, fitted |-> FALSE, on |-> NoData,
            order |-> <<>>, aic |-> 0, hist |-> <<>>]

\* __init__
NewModel(model_type) ==
    [model_type |-> model_type, model |-> NoModel, scaler |-> [fitted |-> FALSE, on |-> NoData],
     is_trained |-> FALSE, training_data |-> [dated |-> FALSE, index |-> <<>>],
     seq_length |-> 0]

\* what a call gives back: the object after it, and the return value or
\* the exception
Raised(o, e, sel, n) ==
    [obj |-> o, ok |-> FALSE, err |-> e, sel |-> sel, n |-> n,
     order |-> <<>>, aic |-> 0, seq_length |-> 0]
Returned(o, sel, n, order, aic, L) ==
    [obj |-> o, ok |-> TRUE, err |-> "none", sel |-> sel, n |-> n,
     order |-> order, aic |-> aic, seq_length |-> L]

\* the 18 orders (p, d, q) in the order the three nested loops visit them
Orders == [i \in 1..18 |-> <<(i - 1) \div 6, ((i - 1) \div 3) % 2, (i - 1) % 3>>]

\* ARIMA(series, order).fit() under a scenario: whether it raises, and
\* the AIC of the fit (nan: the AIC is not a number)
GridFit(grid, o) ==
    CASE grid = "allfail"    -> [ok |-> FALSE, nan |-> FALSE, aic |-> 0]
      [] grid = "best_first" -> [ok |-> TRUE, nan |-> FALSE, aic |-> o[1] + o[2] + o[3]]
      [] grid = "best_last"  -> [ok |-> o[2] = 1, nan |-> FALSE, aic |-> 4 - o[1] - o[3]]
      [] grid = "mid"        -> [ok |-> o[3] # 0, nan |-> FALSE, aic |-> (IF o[1] < 1 THEN 1 - o[1] ELSE o[1] - 1) + o[2]]
      [] OTHER               -> [ok |-> TRUE, nan |-> TRUE, aic |-> 0]

\* fitted_model.aic < best_aic, best_aic starting at float('inf')
AicLess(f, acc) == ~f.nan /\ (acc.inf \/ f.aic < acc.best_aic)

RECURSIVE ArimaSweep(_, _, _, _)
\* _train_arima, lines 211-222: the grid search from order i on
ArimaSweep(i, acc, d, grid) ==
    IF i > Len(Orders) THEN acc
    ELSE LET f == GridFit(grid, Orders[i])
         IN  IF f.ok /\ AicLess(f, acc)
             THEN ArimaSweep(i + 1,
                     [inf |-> FALSE, best_aic |-> f.aic, best_order |-> Orders[i],
                      model |-> [family |-> "arima", fitted |-> TRUE, on |-> d,
                                 order |-> Orders[i], aic |-> f.aic, hist |-> <<>>]],
                     d, grid)
             ELSE ArimaSweep(i + 1, acc, d, grid)

\* _train_arima
_train_arima(o, d, series, env) ==
    LET n == Len(series.index)
        acc == ArimaSweep(1, [inf |-> TRUE, best_aic |-> 0, best_order |-> <<1, 1, 1>>,
                              model |-> o.model], d, env.grid)
    IN  IF acc.model.family = NoFamily
        THEN \* self.model is None: fallback to ARIMA(1,1,1)
             IF env.fb
             THEN LET m == [family |-> "arima", fitted |-> TRUE, on |-> d,
                            order |-> <<1, 1, 1>>, aic |-> 1, hist |-> <<>>]
                  IN  Returned([o EXCEPT !.model = m, !.is_trained = TRUE,
                                         !.training_data = series],
                               "arima", n, <<1, 1, 1>>, m.aic, 0)
             ELSE Raised(o, "fit_failed", "arima", n)
        ELSE Returned([o EXCEPT !.model = acc.model, !.is_trained = TRUE,
                                !.training_data = series],
                      "arima", n, acc.best_order, acc.model.aic, 0)

\* the 'ds' column given to Prophet: the index when it is a DatetimeIndex,
\* else pd.date_range(start='2020-01-01', periods=len(data), freq='D')
ProphetDs(s) ==
    IF s.dated THEN s.index
        ELSE [i \in 1..Len(s.index) |-> Epoch2020 + OneDay * (i - 1)]

\* _train_prophet
_train_prophet(o, d, series, env) ==
    LET n == Len(series.index)
        fresh == [family |-> "prophet", fitted |-> FALSE, on |-> NoData,
                  order |-> <<>>, aic |-> 0, hist |-> <<>>]
        m == [fresh EXCEPT !.fitted = TRUE, !.on = d, !.hist = ProphetDs(series)]
    IN  IF env.fitok
        THEN Returned([o EXCEPT !.model = m, !.is_trained = TRUE,
                                !.training_data = series],
                      "prophet", n, <<>>, 0, 0)
        ELSE Raised([o EXCEPT !.model = fresh], "fit_failed", "prophet", n)

Min(a, b) == IF a < b THEN a ELSE b

\* seq_length = min(10, len(scaled_values) // 3)
SeqLength(n) == Min(MaxSeqLen, n \div 3)

\* len(X) with a window ending at every position, the last included
Windows_inclusive(n) == IF n > SeqLength(n) THEN n - SeqLength(n) + 1 ELSE 0

\* len(X) for X, y = create_sequences(scaled_values, seq_length)
Windows(n) == IF n > SeqLength(n) THEN n - SeqLength(n) ELSE 0

\* _train_lstm
_train_lstm(o, d, series, env) ==
    LET n == Len(series.index)
        o1 == [o EXCEPT !.scaler = [fitted |-> TRUE, on |-> d]]
        fresh == [family |-> "lstm", fitted |-> FALSE, on |-> NoData,
                  order |-> <<>>, aic |-> 0, hist |-> <<>>]
        o2 == [o1 EXCEPT !.model = fresh]
    IN  IF Windows(n) < MinWindows
        THEN Raised(o1, "lstm_insufficient", "lstm", n)
        ELSE IF ~env.fitok THEN Raised(o2, "fit_failed", "lstm", n)
        ELSE Returned([o2 EXCEPT !.model = [fresh EXCEPT !.fitted = TRUE, !.on = d],
                                 !.is_trained = TRUE,
                                 !.training_data = series,
                                 !.seq_length = SeqLength(n)],
                      "lstm", n, <<>>, 0, SeqLength(n))

\* train() without the minimum-length check of line 179
train_nocheck(o, d, env, AV) ==
    LET series == SeriesOf(d)
        n == Len(series.index)
        seas == _detect_seasonality(n, env.ac)
        stat == _check_stationarity(n, env.adf, AV)
        sel == select_best_model(o.model_type, n, seas, stat, AV)
        o1 == [o EXCEPT !.model_type = sel]
    IN  IF sel = NoFamily THEN Raised(o, "no_models", NoFamily, n)
        ELSE IF sel = "arima" /\ "arima" \in AV THEN _train_arima(o1, d, series, env)
        ELSE IF sel = "prophet" /\ "prophet" \in AV THEN _train_prophet(o1, d, series, env)
        ELSE IF sel = "lstm" /\ "lstm" \in AV THEN _train_lstm(o1, d, series, env)
        ELSE Raised(o1, "not_available", sel, n)

\* train(data, target_column, date_column) on object o under availability AV
train(o, d, env, AV) ==
    LET series == SeriesOf(d)
        n == Len(series.index)
        seas == _detect_seasonality(n, env.ac)
        stat == _check_stationarity(n, env.adf, AV)
        sel == select_best_model(o.model_type, n, seas, stat, AV)
        o1 == [o EXCEPT !.model_type = sel]
    IN  IF n < MinSamples THEN Raised(o, "insufficient_data", NoFamily, n)
        ELSE IF sel = NoFamily THEN Raised(o, "no_models", NoFamily, n)
        ELSE IF sel = "arima" /\ "arima" \in AV THEN _train_arima(o1, d, series, env)
        ELSE IF sel = "prophet" /\ "prophet" \in AV THEN _train_prophet(o1, d, series, env)
        ELSE IF sel = "lstm" /\ "lstm" \in AV THEN _train_lstm(o1, d, series, env)
        ELSE Raised(o1, "not_available", sel, n)

----------------------------------------------------------------------------
(* predict *)

NoOut == [predicted_values |-> <<>>, timestamps |-> <<>>, model_used |-> <<>>,
          confidence |-> 0]
PRaised(e) == [ok |-> FALSE, err |-> e, out |-> NoOut]
PReturned(out) == [ok |-> TRUE, err |-> "none", out |-> out]

\* d.strftime('%Y-%m-%d'): the day of a timestamp
Day(ts) == ts \div OneDay

\* pd.date_range(start=start, periods=steps, freq='D')
DateRange(start, steps) == [i \in 1..steps |-> start + OneDay * (i - 1)]

\* the values a fitted model forecasts for `steps` steps (one per step)
Forecast(steps) == [i \in 1..steps |-> i]

\* last_date = index[-1] if the index is a DatetimeIndex else pd.Timestamp.now()
LastDate(series, t) ==
    IF series.dated THEN series.index[Len(series.index)] ELSE t

\* future_dates starting at last_date itself
FutureDays_nostep(series, steps, t) ==
    LET future_dates == DateRange(LastDate(series, t), steps)
    IN  [i \in 1..steps |-> Day(future_dates[i])]

\* future_dates, formatted
FutureDays(series, steps, t) ==
    LET future_dates == DateRange(LastDate(series, t) + OneDay, steps)
    IN  [i \in 1..steps |-> Day(future_dates[i])]

\* _predict_arima
_predict_arima(o, steps, t) ==
    PReturned([predicted_values |-> Forecast(steps),
               timestamps |-> FutureDays(o.training_data, steps, t),
               model_used |-> <<"ARIMA", o.model.order>>,
               confidence |-> 80])

\* the distinct elements of a sorted sequence
Unique(s) == SelectSeq([i \in 1..Len(s) |-> [v |-> s[i], first |-> i = 1 \/ s[i - 1] # s[i]]],
                       LAMBDA e : e.first)

InsertInt(x, s) ==
    IF s = <<>> \/ s[Len(s)] <= x THEN Append(s, x)
    ELSE LET k == Cardinality({i \in 1..Len(s) : s[i] <= x})
         IN  SubSeq(s, 1, k) \o <<x>> \o SubSeq(s, k + 1, Len(s))

RECURSIVE SortIntsFrom(_, _, _)
SortIntsFrom(s, i, acc) ==
    IF i > Len(s) THEN acc ELSE SortIntsFrom(s, i + 1, InsertInt(s[i], acc))

\* df.tail(k)
TailRows(s, k) == SubSeq(s, IF Len(s) > k THEN Len(s) - k + 1 ELSE 1, Len(s))

\* Prophet.make_future_dataframe(periods=steps): the history dates followed
\* by `steps` daily dates after the last of them
make_future_dataframe(hist, steps) ==
    LET u == Unique(SortIntsFrom(hist, 1, <<>>))
        history_dates == [i \in 1..Len(u) |-> u[i].v]
        last_date == history_dates[Len(history_dates)]
    IN  history_dates \o DateRange(last_date + OneDay, steps)

\* _predict_prophet
_predict_prophet(o, steps) ==
    IF ~o.model.fitted THEN PRaised("predict_failed")
    ELSE LET future_forecast == TailRows(make_future_dataframe(o.model.hist, steps), steps)
         IN  PReturned([predicted_values |-> [i \in 1..Len(future_forecast) |-> i],
                        timestamps |-> [i \in 1..Len(future_forecast) |->
                                            Day(future_forecast[i])],
                        model_used |-> <<"Prophet">>,
                        confidence |-> 90])

RECURSIVE Rollout(_, _)
\* _predict_lstm, lines 402-408: one prediction appended per step
Rollout(predictions, k) ==
    IF k = 0 THEN predictions ELSE Rollout(Append(predictions, Len(predictions) + 1), k - 1)

\* _predict_lstm
_predict_lstm(o, steps, t) ==
    IF o.seq_length = 0 \/ ~o.scaler.fitted
       \/ Len(o.training_data.index) < o.seq_length
    THEN PRaised("predict_failed")
    ELSE PReturned([predicted_values |-> Rollout(<<>>, steps),
                    timestamps |-> FutureDays(o.training_data, steps, t),
                    model_used |-> <<"LSTM">>,
                    confidence |-> 85])

\* predict() without the is_trained check of line 336
predict_nocheck(o, steps, t) ==
    IF o.model_type = "arima" THEN _predict_arima(o, steps, t)
    ELSE IF o.model_type = "prophet" THEN _predict_prophet(o, steps)
    ELSE IF o.model_type = "lstm" THEN _predict_lstm(o, steps, t)
    ELSE PRaised("unknown_model_type")

\* predict(steps) at wall-clock time t
predict(o, steps, t) ==
    IF ~o.is_trained THEN PRaised("not_trained")
    ELSE IF o.model_type = "arima" THEN _predict_arima(o, steps, t)
    ELSE IF o.model_type = "prophet" THEN _predict_prophet(o, steps)
    ELSE IF o.model_type = "lstm" THEN _predict_lstm(o, steps, t)
    ELSE PRaised("unknown_model_type")

----------------------------------------------------------------------------
(* Forecast Orchestrator: TimeSeriesPredictor *)

Sources == <<"modis", "merra", "alos">>
KnownSources == {Sources[i] : i \in 1..Len(Sources)}

\* len(dates) of the synthetic series, pd.date_range(..., periods=30, ...)
SyntheticRows == 30

\* _extract_*_timeseries: k metric blocks carry a mean_value (nan: the first
\* of them is NaN); each gets the date pd.Timestamp.now().  Without any, a
\* synthetic daily series from 2020-01-01 is returned.
extract_time_series_data(k, nan, t) ==
    IF k = 0
    THEN [rows |-> SyntheticRows, order |-> "asc", miss |-> FALSE, dated |-> TRUE,
          base |-> Epoch2020]
    ELSE [rows |-> k, order |-> "same", miss |-> nan, dated |-> TRUE, base |-> t]

\* The same functions row by row.  A loader hands over a list of files; a
\* file holds, under the names of its metric blocks in their order, whether
\* the block is there and whether it carries a mean_value.
MaxFiles == 2

BlockNames(src) ==
    IF src = "modis" THEN <<"NDVI", "EVI">>
    ELSE IF src = "merra" THEN <<"T2M", "PRECTOT">>
    ELSE <<"Band_1", "Band_2">>

\* what a loader returned: per file, each of its two blocks absent, without
\* a mean_value, or with one
LoaderFiles ==
    UNION {[1..n -> [1..2 -> {"none", "empty", "mean"}]] : n \in 0..MaxFiles}

\* the names of the blocks with a mean_value, file after file
RECURSIVE MeanBlocks(_, _, _, _)
MeanBlocks(names, files, i, j) ==
    IF i > Len(files) THEN <<>>
    ELSE IF j > Len(names) THEN MeanBlocks(names, files, i + 1, 1)
    ELSE (IF files[i][j] = "mean" THEN <<names[j]>> ELSE <<>>)
            \o MeanBlocks(names, files, i, j + 1)

\* the rows of one _extract_*_timeseries: one row per mean_value, dated
\* pd.Timestamp.now() (tick: what the clock advances between two reads);
\* without any mean_value the synthetic daily series
ExtractRows(names, metric, source, files, t, tick) ==
    LET ms == MeanBlocks(names, files, 1, 1)
    IN  IF ms = <<>>
        THEN [i \in 1..SyntheticRows |->
                [date |-> [t |-> Epoch2020 + (i - 1) * OneDay, us |-> 0], metric |-> metric,
                 source |-> source]]
        ELSE [i \in 1..Len(ms) |->
                [date |-> [t |-> t.t, us |-> t.us + (i - 1) * tick], metric |-> ms[i],
                 source |-> source]]

_extract_modis_timeseries(files, t, tick) ==
    ExtractRows(BlockNames("modis"), "NDVI", "MODIS", files, t, tick)

_extract_merra_timeseries(files, t, tick) ==
    ExtractRows(BlockNames("merra"), "Temperature", "MERRA-2", files, t, tick)

_extract_alos_timeseries(files, t, tick) ==
    ExtractRows(BlockNames("alos"), "Reflectivity", "ALOS PALSAR", files, t, tick)

ExtractTimeSeries(data_source, files, t, tick) ==
    IF data_source = "modis" THEN _extract_modis_timeseries(files, t, tick)
    ELSE IF data_source = "merra" THEN _extract_merra_timeseries(files, t, tick)
    ELSE _extract_alos_timeseries(files, t, tick)

\* data_source.upper() + " Data"
SourceTag(src) == <<src, "upper", " Data">>

\* min(0.95, 0.7 + len(time_series_data) / 100), in hundredths
Confidence(rows) == Min(95, 70 + rows)

\* the except branch of predict_data_source, lines 612-620
FailureEnvelope(src, e) ==
    [success |-> FALSE,
     error |-> <<"Error generating predictions: ", e>>,
     data |-> <<>>, metadata |-> <<>>,
     message |-> <<"Failed to generate predictions for ", src>>]

\* the return of predict_data_source, lines 595-610
SuccessEnvelope(src, steps, out, total_files, rows, training_samples) ==
    [success |-> TRUE,
     error |-> <<>>,
     data |-> <<[predicted_values |-> out.predicted_values,
                 timestamps |-> out.timestamps,
                 model_used |-> out.model_used,
                 source |-> SourceTag(src)]>>,
     metadata |-> <<[processed_files |-> total_files,
                     file_type |-> IF src = "modis" THEN "HDF"
                                  ELSE IF src = "merra" THEN "NetCDF" ELSE "Mixed",
                     confidence |-> Confidence(rows),
                     training_samples |-> training_samples]>>,
     message |-> <<steps, "-step forecast generated successfully using ",
                   out.model_used, " model.">>]

\* what one run of the per-source pipeline is given by its collaborators:
\* load ("ok" or "raise"), the extraction (k, nan, or xraise: it raises),
\* total_files, and the libraries' outcomes env
PipeInputs(Ks, Envs) ==
    [load : {"ok", "raise"}, k : Ks, nan : BOOLEAN, xraise : BOOLEAN,
     total_files : {0, 5}, env : Envs]

\* what predict_data_source gives: the envelope it returns, whether an
\* exception left it, the stage it got to and its local PredictiveModel
PipeFailed(src, stage, e, m, tr) ==
    [envelope |-> FailureEnvelope(src, e), raised |-> FALSE,
     stage |-> stage, model |-> m, tr |-> tr, out |-> NoOut]

NoTrain(m) == Raised(m, "none", NoFamily, 0)

\* predict_data_source, lines 589-610: from predict() on, pr being what
\* predict() gave
PipePredicted(src, steps, inp, d, tr, pr) ==
    IF ~pr.ok THEN PipeFailed(src, "predict", pr.err, tr.obj, tr)
    ELSE [envelope |-> SuccessEnvelope(src, steps, pr.out, inp.total_files,
                                       d.rows, tr.n),
          raised |-> FALSE, stage |-> "done", model |-> tr.obj, tr |-> tr,
          out |-> pr.out]

\* predict_data_source, lines 585-610: from train() on, tr being what
\* train() gave
PipeTrained(src, steps, inp, d, tr, t) ==
    IF ~tr.ok THEN PipeFailed(src, "train", tr.err, tr.obj, tr)
    ELSE PipePredicted(src, steps, inp, d, tr, predict(tr.obj, steps, t))

\* predict_data_source, lines 579-610: from the extracted frame d on
PipeExtracted(src, model_type, steps, inp, d, AV, t) ==
    IF d.rows < MinSamples
    THEN PipeFailed(src, "length", "insufficient_rows", NewModel(model_type),
                    NoTrain(NewModel(model_type)))
    ELSE PipeTrained(src, steps, inp, d,
                     train(NewModel(model_type), d, inp.env, AV), t)

\* predict_data_source validating the source before entering its try block
predict_data_source_raises(src, model_type, steps, inp, AV, t) ==
    IF src \notin KnownSources
    THEN [PipeFailed(src, "load", "unknown_source", NewModel(model_type),
                     NoTrain(NewModel(model_type))) EXCEPT !.raised = TRUE]
    ELSE IF inp.load = "raise"
    THEN PipeFailed(src, "load", "load_failed", NewModel(model_type),
                    NoTrain(NewModel(model_type)))
    ELSE IF inp.xraise
    THEN PipeFailed(src, "extract", "extract_failed", NewModel(model_type),
                    NoTrain(NewModel(model_type)))
    ELSE PipeExtracted(src, model_type, steps, inp,
                       extract_time_series_data(inp.k, inp.nan, t), AV, t)

\* predict_data_source(data_source, model_type, steps)
predict_data_source(src, model_type, steps, inp, AV, t) ==
    IF src \notin KnownSources
    THEN PipeFailed(src, "load", "unknown_source", NewModel(model_type),
                    NoTrain(NewModel(model_type)))
    ELSE IF inp.load = "raise"
    THEN PipeFailed(src, "load", "load_failed", NewModel(model_type),
                    NoTrain(NewModel(model_type)))
    ELSE IF inp.xraise
    THEN PipeFailed(src, "extract", "extract_failed", NewModel(model_type),
                    NoTrain(NewModel(model_type)))
    ELSE PipeExtracted(src, model_type, steps, inp,
                       extract_time_series_data(inp.k, inp.nan, t), AV, t)

\* the loop of predict_all_sources giving up at the first failing source
PredictAllIteration_abort(p, src, r) ==
    IF r.raised \/ ~r.envelope.success
    THEN [p EXCEPT !.predictions = Append(@, [source |-> src, entry |-> r.envelope]),
                   !.i = Len(Sources) + 1]
    ELSE [p EXCEPT !.predictions = Append(@, [source |-> src, entry |-> r.envelope]),
                   !.total_files = @ + r.envelope.metadata[1].processed_files,
                   !.i = @ + 1]

\* predict_all_sources, lines 639-650: one iteration of the loop, given the
\* outcome r of predict_data_source for src
PredictAllIteration(p, src, r) ==
    IF r.raised
    THEN [p EXCEPT !.predictions = Append(@, [source |-> src,
                      entry |-> [success |-> FALSE, error |-> <<"raised">>,
                                 data |-> <<>>, metadata |-> <<>>,
                                 message |-> <<>>]]),
                   !.i = @ + 1]
    ELSE [p EXCEPT !.predictions = Append(@, [source |-> src, entry |-> r.envelope]),
                   !.total_files = @ + (IF r.envelope.metadata # <<>>
                                        THEN r.envelope.metadata[1].processed_files
                                        ELSE 0),
                   !.i = @ + 1]

\* predict_all_sources, lines 652-661: the envelope returned
AllEnvelope(p) ==
    [success |-> TRUE, data |-> p.predictions,
     metadata |-> [sources |-> <<"MODIS", "MERRA-2", "ALOS PALSAR">>,
                   total_files |-> p.total_files,
                   model_type |-> p.model_type],
     message |-> "Multi-source predictions generated successfully"]

----------------------------------------------------------------------------
(* The inputs calls are given *)

Steps == 1..MaxSteps

\* a date with a time of day (noon of day 10 after 2020-01-01)
BaseTs == 21

\* every length up to MaxN, as a dated ascending series
LengthData ==
    {[rows |-> r, order |-> "asc", miss |-> FALSE, dated |-> TRUE, base |-> BaseTs] :
        r \in 0..MaxN}

\* the shapes a frame can have, at the lengths around the thresholds
ShapeData ==
    [rows : {MinSamples - 1, MinSamples, MinSamples + 1, MinWindows + 3, SeasonN, MaxN},
     order : {"asc", "desc", "same"}, miss : BOOLEAN, dated : BOOLEAN,
     base : {BaseTs}]

FewData ==
    {d \in ShapeData : /\ d.order = "desc"
                       /\ d.rows \in {MinSamples, MinSamples + 1, MinWindows + 3, MaxN}
                       /\ (d.miss => d.rows = MinSamples)
                       /\ (~d.dated => d.rows = MinWindows + 3 /\ ~d.miss)}

FitCases ==
    {[grid |-> "allfail", fb |-> TRUE, fitok |-> TRUE],
     [grid |-> "allfail", fb |-> FALSE, fitok |-> FALSE],
     [grid |-> "best_first", fb |-> TRUE, fitok |-> TRUE],
     [grid |-> "best_last", fb |-> TRUE, fitok |-> TRUE],
     [grid |-> "mid", fb |-> TRUE, fitok |-> FALSE],
     [grid |-> "nan", fb |-> TRUE, fitok |-> TRUE]}

Envs ==
    {[adf |-> a, ac |-> c, grid |-> f.grid, fb |-> f.fb, fitok |-> f.fitok] :
        a \in {AdfRaises, 1, PThreshold}, c \in {AcThreshold, -4}, f \in FitCases}

\* the outcomes drawn for repeated calls and for the orchestrator
ObjEnvs == {e \in Envs : e.adf # AdfRaises /\ e.grid \in {"best_first", "allfail"}}

GoodEnv == [adf |-> 1, ac |-> 0, grid |-> "best_first", fb |-> TRUE, fitok |-> TRUE]
BadEnv == [adf |-> 1, ac |-> 0, grid |-> "allfail", fb |-> FALSE, fitok |-> FALSE]

\* the inputs of one predict_data_source call; what is never read because
\* an earlier stage raised is left at a fixed value
SingleInputs ==
    {inp \in PipeInputs({0, MinSamples - 1, MinSamples, MinWindows + 3},
                      {e \in ObjEnvs : e.grid = "allfail" => ~e.fb}) :
        /\ (inp.load = "raise" => ~inp.xraise)
        /\ (inp.load = "raise" \/ inp.xraise =>
                inp.k = 0 /\ ~inp.nan /\ inp.total_files = 0 /\ inp.env = GoodEnv)}

\* the inputs of one iteration of predict_all_sources
LoopInputs ==
    {inp \in PipeInputs({0, MinSamples - 1}, {GoodEnv, BadEnv}) :
        /\ ~inp.nan /\ inp.total_files = 5
        /\ (inp.load = "raise" => ~inp.xraise)
        /\ (inp.load = "raise" \/ inp.xraise \/ inp.k # 0 => inp.env = GoodEnv)
        /\ (inp.load = "raise" \/ inp.xraise => inp.k = 0)}

----------------------------------------------------------------------------
(* ModelManager: the blobs of models_dir, the index model_metadata.json    *)
(* and the copy of the index the instance keeps in memory                   *)

\* the (dataset, model_type) pairs the calls are made with
StoreKeys == {<<"modis", "arima">>, <<"modis", "lstm">>, <<"merra", "arima">>}

get_model_path(dataset, model_type) == dataset \o "_" \o model_type \o ".pkl"

model_key(dataset, model_type) == dataset \o "_" \o model_type

Paths == {get_model_path(k[1], k[2]) : k \in StoreKeys}
ModelKeys == {model_key(k[1], k[2]) : k \in StoreKeys}

\* the arguments of save_model: a model that pickles or does not, a
\* DataFrame or None as training_data, a metadata dict
NoHandle == [id |-> 0, picklable |-> TRUE]
Handles == {[id |-> 1, picklable |-> TRUE], [id |-> 2, picklable |-> TRUE],
            [id |-> 3, picklable |-> FALSE]}
NoFrame == [sized |-> FALSE, rows |-> 0]
Frames == {[sized |-> TRUE, rows |-> MinSamples], NoFrame}
NoMeta == [aic |-> 0]

\* datetime.now(): the clock's half days and its microsecond part
Stamp(t, us) == [t |-> t, us |-> us]

\* datetime.isoformat(): the text has no fraction when microsecond is 0
isoformat(dt) ==
    [ok |-> TRUE, t |-> dt.t, frac |-> IF dt.us = 0 THEN <<>> ELSE <<dt.us>>]

\* a text datetime.fromisoformat() raises on: '' for a missing last_updated,
\* or anything that is no date
NoIso == [ok |-> FALSE, t |-> 0, frac |-> <<>>]

\* datetime.fromisoformat() of a text it can read
fromisoformat(text) == Stamp(text.t, IF text.frac = <<>> THEN 0 ELSE text.frac[1])

\* (a - b).days: whole days, rounded down
AgeDays(a, b) ==
    IF (a.t - b.t) % OneDay = 0 /\ a.us < b.us
    THEN ((a.t - b.t) \div OneDay) - 1
    ELSE (a.t - b.t) \div OneDay

\* the dict save_model pickles; dt is the clock when it is built
ModelData(dataset, model_type, model, training_data, metadata, dt) ==
    [model |-> model, training_data |-> training_data, metadata |-> metadata,
     dataset |-> dataset, model_type |-> model_type, saved_at |-> isoformat(dt)]

NoModelData ==
    [model |-> NoHandle, training_data |-> NoFrame, metadata |-> NoMeta,
     dataset |-> "", model_type |-> "", saved_at |-> NoIso]

\* a file of models_dir: absent, opened for writing and not completed, or
\* holding a complete pickle
NoFile == [state |-> "absent", data |-> NoModelData]
PartialFile == [state |-> "partial", data |-> NoModelData]
WrittenFile(model_data) == [state |-> "written", data |-> model_data]

\* st_size of a complete pickle
FileSize(model_data) ==
    100 + 10 * model_data.model.id + model_data.training_data.rows
        + (IF model_data.saved_at.frac = <<>> THEN 19 ELSE 26)

\* an entry of the index
NoEntry ==
    [present |-> FALSE, dataset |-> "", model_type |-> "", last_updated |-> NoIso,
     training_samples |-> 0, file_size |-> 0, metadata |-> NoMeta]

IndexEntry(dataset, model_type, training_data, file, metadata, dt) ==
    [present |-> TRUE, dataset |-> dataset, model_type |-> model_type,
     last_updated |-> isoformat(dt), training_samples |-> training_data.rows,
     file_size |-> FileSize(file.data), metadata |-> metadata]

\* the keys of an index in the order of the dict: a new key goes last
PutKey(order, k) ==
    IF \E i \in 1..Len(order) : order[i] = k THEN order ELSE Append(order, k)

DelKey(order, k) == SelectSeq(order, LAMBDA x : x # k)

NoIndex == [k \in ModelKeys |-> NoEntry]

EmptyStore ==
    [files |-> [p \in Paths |-> NoFile],
     metadata |-> NoIndex, order |-> <<>>,
     metadata_file |-> [readable |-> TRUE, entries |-> NoIndex, order |-> <<>>]]

\* A fault is what the environment does to one call: nothing ("none"), or
\* it fails the open of the blob ("open"), the unlink of the blob
\* ("unlink"), the open of the index ("meta_open") or its json.dump
\* ("meta_dump").
\* _save_metadata: writes the in-memory index; every error is logged only
_save_metadata(st, fault) ==
    CASE fault = "meta_open" -> st
      [] fault = "meta_dump" ->
            [st EXCEPT !.metadata_file = [@ EXCEPT !.readable = FALSE]]
      [] OTHER ->
            [st EXCEPT !.metadata_file =
                [readable |-> TRUE, entries |-> st.metadata, order |-> st.order]]

\* _load_metadata: the index a new instance starts from
_load_metadata(st) ==
    IF st.metadata_file.readable
    THEN [entries |-> st.metadata_file.entries, order |-> st.metadata_file.order]
    ELSE [entries |-> NoIndex, order |-> <<>>]

model_exists(st, dataset, model_type) ==
    st.files[get_model_path(dataset, model_type)].state # "absent"

get_model_info(st, dataset, model_type) == st.metadata[model_key(dataset, model_type)]

\* save_model: the store after the call, the value returned and the number
\* of times the clock was read (at t.us, t.us + 1)
save_model(st, dataset, model_type, model, training_data, metadata, fault, t) ==
    LET model_path == get_model_path(dataset, model_type)
        model_data == ModelData(dataset, model_type, model, training_data, metadata, t)
        opened == [st EXCEPT !.files[model_path] = PartialFile]
        dumped == [st EXCEPT !.files[model_path] = WrittenFile(model_data)]
        entered == [dumped EXCEPT !.metadata[model_key(dataset, model_type)] =
                       IndexEntry(dataset, model_type, training_data,
                                  dumped.files[model_path], metadata,
                                  Stamp(t.t, t.us + 1)),
                                   !.order = PutKey(@, model_key(dataset, model_type))]
    IN  IF fault = "open" THEN [store |-> st, ret |-> FALSE, reads |-> 1]
        ELSE IF ~model.picklable THEN [store |-> opened, ret |-> FALSE, reads |-> 1]
        ELSE IF ~training_data.sized THEN [store |-> dumped, ret |-> FALSE, reads |-> 2]
        ELSE [store |-> _save_metadata(entered, fault), ret |-> TRUE, reads |-> 2]

\* what load_model returns: None, or the (model, training_data, metadata) of
\* the pickle
NotFound ==
    [found |-> FALSE, model |-> NoHandle, training_data |-> NoFrame, metadata |-> NoMeta]

Loaded(model, training_data, metadata) ==
    [found |-> TRUE, model |-> model, training_data |-> training_data,
     metadata |-> metadata]

load_model(st, dataset, model_type) ==
    LET f == st.files[get_model_path(dataset, model_type)]
    IN  IF f.state = "absent" THEN NotFound
        ELSE IF f.state = "partial" THEN NotFound
        ELSE Loaded(f.data.model, f.data.training_data, f.data.metadata)

\* delete_model answering False for a key that has neither blob nor entry
delete_model_strict(st, dataset, model_type, fault) ==
    LET model_path == get_model_path(dataset, model_type)
        k == model_key(dataset, model_type)
        unlinked == [st EXCEPT !.files[model_path] = NoFile]
        removed == [unlinked EXCEPT !.metadata[k] = NoEntry, !.order = DelKey(@, k)]
    IN  IF model_exists(st, dataset, model_type) /\ fault = "unlink"
        THEN [store |-> st, ret |-> FALSE]
        ELSE IF st.metadata[k].present
        THEN [store |-> _save_metadata(removed, fault), ret |-> TRUE]
        ELSE [store |-> unlinked, ret |-> model_exists(st, dataset, model_type)]

\* delete_model: the store after the call and the value returned
delete_model(st, dataset, model_type, fault) ==
    LET model_path == get_model_path(dataset, model_type)
        k == model_key(dataset, model_type)
        unlinked == [st EXCEPT !.files[model_path] = NoFile]
        removed == [unlinked EXCEPT !.metadata[k] = NoEntry, !.order = DelKey(@, k)]
    IN  IF model_exists(st, dataset, model_type) /\ fault = "unlink"
        THEN [store |-> st, ret |-> FALSE]
        ELSE IF st.metadata[k].present
        THEN [store |-> _save_metadata(removed, fault), ret |-> TRUE]
        ELSE [store |-> unlinked, ret |-> TRUE]

\* max_age_days when the caller gives none
FreshDays == 7

\* is_model_fresh at the clock value dt
is_model_fresh(st, dataset, model_type, max_age_days, dt) ==
    LET model_info == get_model_info(st, dataset, model_type)
    IN  IF ~model_info.present THEN FALSE
        ELSE IF ~model_info.last_updated.ok THEN FALSE
        ELSE AgeDays(dt, fromisoformat(model_info.last_updated)) <= max_age_days

\* model_key.split('_', 1), for a key made of a dataset name without '_'
split_key(k) == CHOOSE p \in StoreKeys : model_key(p[1], p[2]) = k

\* the loop of cleanup_old_models over a snapshot of the index, from its
\* i-th key on: the clock is read once per entry, starting at dt; faults
\* is the set of keys whose blob the file system refuses to unlink
RECURSIVE CleanupFrom(_, _, _, _, _, _, _)
CleanupFrom(st, keys, i, cleaned_count, max_age_days, dt, faults) ==
    IF i > Len(keys)
    THEN [store |-> st, ret |-> cleaned_count, reads |-> i - 1]
    ELSE LET model_info == st.metadata[keys[i]]
             p == split_key(keys[i])
         IN  IF ~model_info.last_updated.ok
             THEN [store |-> st, ret |-> 0, reads |-> i - 1]
             ELSE IF AgeDays(Stamp(dt.t, dt.us + i - 1),
                             fromisoformat(model_info.last_updated)) > max_age_days
             THEN LET r == delete_model(st, p[1], p[2],
                                       IF keys[i] \in faults THEN "unlink" ELSE "none")
                  IN  CleanupFrom(r.store, keys, i + 1,
                                  IF r.ret THEN cleaned_count + 1 ELSE cleaned_count,
                                  max_age_days, dt, faults)
             ELSE CleanupFrom(st, keys, i + 1, cleaned_count, max_age_days, dt, faults)

\* cleanup_old_models: the store after the call and the count returned
cleanup_old_models(st, max_age_days, dt, faults) ==
    CleanupFrom(st, st.order, 1, 0, max_age_days, dt, faults)

----------------------------------------------------------------------------
(* State *)

NoLast(o) ==
    [op |-> "none", d |-> NoData, ok |-> TRUE, err |-> "none", sel |-> NoFamily,
     n |-> 0, stat |-> FALSE, seas |-> FALSE, pre |-> o, steps |-> 0,
     out |-> NoOut, stage |-> "none", warned |-> NoFamily, adf |-> 0,
     grid |-> "none", ret |-> [order |-> <<>>, aic |-> 0, seq_length |-> 0]]

IdlePipe ==
    [pc |-> "idle", i |-> 1, predictions |-> <<>>, total_files |-> 0,
     model_type |-> "auto", steps |-> 0, envelope |-> <<>>, raised |-> FALSE,
     inputs |-> <<>>]

\* the last ModelManager call, the number of calls made, and per key what
\* the last save_model that returned True was given, unless a delete_model
\* that returned True came after it
NoArgs == [model |-> NoHandle, training_data |-> NoFrame, metadata |-> NoMeta]

NoCall ==
    [op |-> "none", key |-> <<"", "">>, args |-> NoArgs, ret |-> FALSE,
     result |-> NotFound, pre |-> EmptyStore, ops |-> 0,
     saved |-> [k \in StoreKeys |-> NotFound], twice |-> FALSE,
     max_age_days |-> 0, count |-> 0, at |-> Stamp(0, 0), faults |-> {}]

\* no save_model or delete_model call under way
NoRun ==
    [pc |-> "idle", op |-> "none", key |-> <<"", "">>, args |-> NoArgs,
     model_data |-> NoModelData, since |-> 0, ret |-> FALSE, n |-> 0]

\* no extraction yet
NoExtract == [op |-> "none", src |-> "", files |-> <<>>, rows |-> <<>>, n |-> 0]

\* no request yet
NoRequest ==
    [ep |-> "none", status |-> 0, dataset |-> "", model |-> "", metadata |-> <<>>,
     pre |-> EmptyStore, post |-> EmptyStore, again |-> FALSE, before |-> 0,
     n |-> 0]

\* no second ModelManager yet
NoPeer == [open |-> FALSE, metadata |-> NoIndex, order |-> <<>>, n |-> 0]

InitModel ==
    /\ avail \in SUBSET Families
    /\ now = NowTs
    /\ created \in Modes
    /\ obj = NewModel(created)
    /\ last = NoLast(obj)
    /\ calls = 0
    /\ trained_ok = FALSE
    /\ pipe = IdlePipe
    /\ mcall = NoCall
    /\ run = NoRun
    /\ xt = NoExtract
    /\ http = NoRequest
    /\ peer = NoPeer

InitObj == InitModel /\ store = EmptyStore /\ micro = 1

\* a ModelManager on an empty models_dir, in a build with every family
InitStore ==
    /\ InitModel
    /\ avail = Families
    /\ created = "auto"
    /\ store = EmptyStore
    /\ micro \in {0, 1}

\* a models_dir another program has written to before the ModelManager is
\* made: a blob for modis_lstm, and an index entry for it without a
\* last_updated that can be read
ForeignData == ModelData("modis", "lstm", [id |-> 2, picklable |-> TRUE],
                         [sized |-> TRUE, rows |-> MinSamples], [aic |-> 1],
                         Stamp(Epoch2020, 1))

ForeignIndex ==
    [NoIndex EXCEPT ![model_key("modis", "lstm")] =
        [IndexEntry("modis", "lstm", ForeignData.training_data,
                    WrittenFile(ForeignData), ForeignData.metadata,
                    Stamp(Epoch2020, 1))
            EXCEPT !.last_updated = NoIso]]

ForeignStore ==
    [files |-> [[p \in Paths |-> NoFile]
                    EXCEPT ![get_model_path("modis", "lstm")] = WrittenFile(ForeignData)],
     metadata |-> ForeignIndex, order |-> <<model_key("modis", "lstm")>>,
     metadata_file |-> [readable |-> TRUE, entries |-> ForeignIndex,
                        order |-> <<model_key("modis", "lstm")>>]]

\* a ModelManager made on an empty or on such a models_dir
InitAge ==
    /\ InitModel
    /\ avail = Families
    /\ created = "auto"
    /\ store \in {EmptyStore, ForeignStore}
    /\ micro = 1

----------------------------------------------------------------------------
(* Calls on a PredictiveModel *)

\* select_best_model(data, 'value') called on the object
SelectCall ==
    /\ calls = 0 /\ last.op = "none" /\ pipe = IdlePipe
    /\ \E d \in LengthData, env \in Envs :
         LET n == d.rows
             seas == _detect_seasonality(n, env.ac)
             stat == _check_stationarity(n, env.adf, avail)
             sel == select_best_model(obj.model_type, n, seas, stat, avail)
         IN  last' = [NoLast(obj) EXCEPT !.op = "select", !.d = d, !.n = n,
                         !.seas = seas, !.stat = stat, !.sel = sel,
                         !.warned = FallbackWarning(obj.model_type, avail),
                         !.adf = env.adf,
                         !.ok = (sel # NoFamily),
                         !.err = IF sel = NoFamily THEN "no_models" ELSE "none"]
    /\ UNCHANGED <<peer, http, xt, run, avail, now, created, obj, calls, trained_ok, pipe, store, mcall, micro>>

\* train(d, 'value', 'date') on the object
DoTrain(d, env) ==
    \E r \in {train(obj, d, env, avail)} :
        /\ obj' = r.obj
        /\ last' = [NoLast(obj) EXCEPT !.op = "train", !.d = d, !.n = r.n,
                       !.seas = _detect_seasonality(r.n, env.ac),
                       !.stat = _check_stationarity(r.n, env.adf, avail),
                       !.sel = r.sel, !.ok = r.ok, !.err = r.err,
                       !.grid = IF r.sel = "arima" THEN env.grid ELSE "none",
                       !.ret = [order |-> r.order, aic |-> r.aic,
                                seq_length |-> r.seq_length]]
        /\ calls' = calls + 1
        /\ trained_ok' = (trained_ok \/ r.ok)
        /\ UNCHANGED <<peer, http, xt, run, avail, now, created, pipe, store, mcall, micro>>

\* the first train() of an object, on any dataset
TrainFirst ==
    /\ calls = 0 /\ last.op = "none" /\ pipe = IdlePipe
    /\ \E d \in LengthData \cup ShapeData, env \in Envs : DoTrain(d, env)

\* longest sequence of train() calls on one object
MaxTrains == 2

\* train() on an object, trained before or not
TrainAgain ==
    /\ calls < MaxTrains /\ pipe = IdlePipe
    /\ \E d \in FewData, env \in ObjEnvs : DoTrain(d, env)

\* predict(steps) on the object
PredictCall ==
    /\ pipe = IdlePipe
    /\ \E steps \in Steps :
         \E r \in {predict(obj, steps, now)} :
             last' = [NoLast(obj) EXCEPT !.op = "predict", !.steps = steps,
                         !.ok = r.ok, !.err = r.err, !.out = r.out]
    /\ UNCHANGED <<peer, http, xt, run, avail, now, created, obj, calls, trained_ok, pipe, store, mcall, micro>>

----------------------------------------------------------------------------
(* Calls on the TimeSeriesPredictor.  created is the model_type they pass; *)
(* obj and last show the PredictiveModel the pipeline made.                *)

PipelineRecord(r, d, steps) ==
    [NoLast(NewModel(created)) EXCEPT !.op = "pipeline", !.d = d, !.n = r.tr.n,
        !.sel = r.tr.sel, !.ok = r.tr.ok, !.err = r.tr.err, !.steps = steps,
        !.out = r.out, !.stage = r.stage]

\* predict_data_source(src, created, steps)
PredictDataSourceCall ==
    /\ calls = 0 /\ last.op = "none" /\ pipe = IdlePipe
    /\ \E src \in KnownSources \cup {"landsat"}, steps \in Steps, inp \in SingleInputs :
         \E r \in {predict_data_source(src, created, steps, inp, avail, now)} :
             /\ pipe' = [IdlePipe EXCEPT !.pc = "single", !.model_type = created,
                            !.steps = steps, !.envelope = <<r.envelope>>,
                            !.raised = r.raised]
             /\ obj' = r.model
             /\ trained_ok' = r.tr.ok
             /\ last' = PipelineRecord(r, extract_time_series_data(inp.k, inp.nan, now),
                                       steps)
    /\ calls' = 1
    /\ UNCHANGED <<peer, http, xt, run, avail, now, created, store, mcall, micro>>

\* predict_all_sources(created, steps) is entered
PredictAllStart ==
    /\ calls = 0 /\ last.op = "none" /\ pipe = IdlePipe
    /\ \E steps \in Steps :
         pipe' = [IdlePipe EXCEPT !.pc = "all", !.model_type = created, !.steps = steps]
    /\ UNCHANGED <<peer, http, xt, run, avail, now, created, obj, last, calls, trained_ok, store, mcall, micro>>

\* one iteration of its loop over the sources
PredictAllSource ==
    /\ pipe.pc = "all" /\ pipe.i <= Len(Sources)
    /\ \E inp \in LoopInputs :
         \E r \in {predict_data_source(Sources[pipe.i], pipe.model_type, pipe.steps,
                                        inp, avail, now)} :
             /\ pipe' = [PredictAllIteration(pipe, Sources[pipe.i], r) EXCEPT
                            !.inputs = Append(@, [src |-> Sources[pipe.i], inp |-> inp])]
             /\ obj' = r.model
             /\ trained_ok' = r.tr.ok
             /\ last' = PipelineRecord(r, extract_time_series_data(inp.k, inp.nan, now),
                                       pipe.steps)
    /\ calls' = 1
    /\ UNCHANGED <<peer, http, xt, run, avail, now, created, store, mcall, micro>>

\* its return
PredictAllReturn ==
    /\ pipe.pc = "all" /\ pipe.i > Len(Sources)
    /\ pipe' = [pipe EXCEPT !.pc = "all_done", !.envelope = <<AllEnvelope(pipe)>>]
    /\ UNCHANGED <<peer, http, xt, run, avail, now, created, obj, last, calls, trained_ok, store, mcall, micro>>

----------------------------------------------------------------------------
(* Calls on the ModelManager *)

\* longest sequence of ModelManager calls
MaxOps == 3

\* the arguments and the environment of one save_model call
SaveInputs ==
    {[model |-> m, training_data |-> td, metadata |-> md, fault |-> f] :
        m \in Handles, td \in Frames, md \in {[aic |-> 1]},
        f \in {"none", "open", "meta_open", "meta_dump"}}

SaveArgs(inp) ==
    [model |-> inp.model, training_data |-> inp.training_data,
     metadata |-> inp.metadata]

\* save_model(dataset, model_type, model, training_data, metadata)
DoSave(k, inp) ==
         \E r \in {save_model(store, k[1], k[2], inp.model, inp.training_data,
                              inp.metadata, inp.fault, Stamp(now, micro))} :
             /\ store' = r.store
             /\ micro' = micro + r.reads
             /\ mcall' = [mcall EXCEPT !.op = "save", !.key = k, !.ret = r.ret,
                             !.args = SaveArgs(inp),
                             !.result = NotFound, !.pre = store, !.ops = @ + 1,
                             !.saved[k] = IF r.ret
                                          THEN Loaded(inp.model, inp.training_data,
                                                      inp.metadata)
                                          ELSE @,
                             !.twice = /\ mcall.op = "save" /\ mcall.key = k
                                       /\ mcall.ret /\ r.ret
                                       /\ mcall.args = SaveArgs(inp)]
             /\ UNCHANGED <<peer, http, xt, run, avail, now, created, obj, last, calls, trained_ok, pipe>>

SaveModel ==
    /\ mcall.ops < MaxOps
    /\ \E k \in StoreKeys, inp \in SaveInputs : DoSave(k, inp)

\* delete_model(dataset, model_type)
DeleteModel ==
    /\ mcall.ops < MaxOps
    /\ \E k \in StoreKeys, fault \in {"none", "unlink", "meta_open"} :
         \E r \in {delete_model(store, k[1], k[2], fault)} :
             /\ store' = r.store
             /\ mcall' = [mcall EXCEPT !.op = "delete", !.key = k, !.ret = r.ret,
                             !.args = NoArgs, !.twice = FALSE,
                             !.result = NotFound, !.pre = store, !.ops = @ + 1,
                             !.saved[k] = IF r.ret THEN NotFound ELSE @]
    /\ UNCHANGED <<peer, http, xt, run, avail, now, created, obj, last, calls, trained_ok, pipe, micro>>

\* load_model(dataset, model_type)
LoadModel ==
    /\ mcall.ops < MaxOps
    /\ \E k \in StoreKeys :
         mcall' = [mcall EXCEPT !.op = "load", !.key = k,
                      !.args = NoArgs, !.twice = FALSE,
                      !.ret = load_model(store, k[1], k[2]).found,
                      !.result = load_model(store, k[1], k[2]),
                      !.pre = store, !.ops = @ + 1]
    /\ UNCHANGED <<peer, http, xt, run, avail, now, created, obj, last, calls, trained_ok, pipe, store,
                   micro>>

----------------------------------------------------------------------------
(* The ageing of records *)

\* the longest time a run covers
MaxElapsed == 32

\* time passes between two calls: seven days and a half, or eight days
Tick ==
    /\ \E dt \in {FreshDays * OneDay + 1, (FreshDays + 1) * OneDay} :
         /\ now + dt <= NowTs + MaxElapsed
         /\ now' = now + dt
    /\ UNCHANGED <<peer, http, xt, run, avail, created, obj, last, calls, trained_ok, pipe, store, mcall,
                   micro>>

\* save_model with a model and a dataset that pickle, nothing failing
SaveQuiet ==
    /\ mcall.ops < MaxOps
    /\ \E k \in StoreKeys :
         DoSave(k, [model |-> [id |-> 1, picklable |-> TRUE],
                    training_data |-> [sized |-> TRUE, rows |-> MinSamples],
                    metadata |-> [aic |-> 1], fault |-> "none"])

MaxAges == {1, FreshDays}

\* is_model_fresh(dataset, model_type, max_age_days)
IsModelFresh ==
    /\ mcall.ops < MaxOps
    /\ \E k \in StoreKeys, max_age_days \in MaxAges :
         mcall' = [mcall EXCEPT !.op = "fresh", !.key = k, !.args = NoArgs,
                      !.twice = FALSE, !.result = NotFound, !.pre = store,
                      !.ops = @ + 1, !.max_age_days = max_age_days,
                      !.at = Stamp(now, micro),
                      !.ret = is_model_fresh(store, k[1], k[2], max_age_days,
                                             Stamp(now, micro))]
    /\ micro' = micro + 1
    /\ UNCHANGED <<peer, http, xt, run, avail, now, created, obj, last, calls, trained_ok, pipe, store>>

\* cleanup_old_models(max_age_days)
CleanupOldModels ==
    /\ mcall.ops < MaxOps
    /\ \E max_age_days \in MaxAges, faults \in {{}} \cup {{k} : k \in ModelKeys} :
         \E r \in {cleanup_old_models(store, max_age_days, Stamp(now, micro), faults)} :
             /\ store' = r.store
             /\ micro' = micro + r.reads
             /\ mcall' = [mcall EXCEPT !.op = "cleanup", !.key = <<"", "">>,
                             !.args = NoArgs, !.twice = FALSE, !.result = NotFound,
                             !.pre = store, !.ops = @ + 1, !.ret = FALSE,
                             !.max_age_days = max_age_days, !.count = r.ret,
                             !.at = Stamp(now, micro), !.faults = faults,
                             !.saved = [k \in StoreKeys |->
                                 IF /\ store.metadata[model_key(k[1], k[2])].present
                                    /\ ~r.store.metadata[model_key(k[1], k[2])].present
                                 THEN NotFound ELSE @[k]]]
    /\ UNCHANGED <<peer, http, xt, run, avail, now, created, obj, last, calls, trained_ok, pipe>>

----------------------------------------------------------------------------
(* save_model and delete_model statement by statement, while another caller
   of the same ModelManager makes whole calls in between *)

MaxRuns == 1

\* what ends a call under way
Return(value) == [run EXCEPT !.pc = "idle", !.ret = value]

\* save_model, lines 150-158: model_data is built and the blob is opened
\* for writing, which empties it
SaveOpen ==
    /\ run.pc = "idle"
    /\ run.n < MaxRuns
    /\ \E k \in StoreKeys, m \in {h \in Handles : h.id # 1}, td \in Frames :
         /\ run' = [pc |-> "opened", op |-> "save", key |-> k,
                    args |-> [model |-> m, training_data |-> td, metadata |-> [aic |-> 1]],
                    model_data |-> ModelData(k[1], k[2], m, td, [aic |-> 1],
                                             Stamp(now, micro)),
                    since |-> mcall.ops, ret |-> FALSE, n |-> run.n + 1]
         /\ store' = [store EXCEPT !.files[get_model_path(k[1], k[2])] = PartialFile]
    /\ micro' = micro + 1
    /\ UNCHANGED <<peer, http, xt, avail, now, created, obj, last, calls, trained_ok, pipe, mcall>>

\* line 159: pickle.dump
SaveDump ==
    /\ run.pc = "opened"
    /\ IF run.args.model.picklable
       THEN /\ store' = [store EXCEPT !.files[get_model_path(run.key[1], run.key[2])] =
                                          WrittenFile(run.model_data)]
            /\ run' = [run EXCEPT !.pc = "dumped"]
       ELSE /\ run' = Return(FALSE)
            /\ UNCHANGED store
    /\ UNCHANGED <<peer, http, xt, avail, now, created, obj, last, calls, trained_ok, pipe, mcall, micro>>

\* lines 162-170: the entry of the key in the in-memory index, with the
\* size of the file that is at the path now
SaveEnter ==
    /\ run.pc = "dumped"
    /\ LET k == model_key(run.key[1], run.key[2])
           f == store.files[get_model_path(run.key[1], run.key[2])]
       IN  IF ~run.args.training_data.sized \/ f.state = "absent"
           THEN /\ run' = Return(FALSE)
                /\ UNCHANGED store
           ELSE /\ store' = [store EXCEPT
                                !.metadata[k] =
                                    IndexEntry(run.key[1], run.key[2],
                                               run.args.training_data, f,
                                               run.args.metadata, Stamp(now, micro)),
                                !.order = PutKey(@, k)]
                /\ run' = [run EXCEPT !.pc = "entered"]
    /\ micro' = micro + 1
    /\ UNCHANGED <<peer, http, xt, avail, now, created, obj, last, calls, trained_ok, pipe, mcall>>

\* lines 172-175: _save_metadata, return True
SaveMeta ==
    /\ run.pc = "entered"
    /\ \E fault \in {"none", "meta_open"} : store' = _save_metadata(store, fault)
    /\ run' = Return(TRUE)
    /\ UNCHANGED <<peer, http, xt, avail, now, created, obj, last, calls, trained_ok, pipe, mcall, micro>>

\* delete_model, lines 224-227: the blob is unlinked when it exists
DeleteUnlink ==
    /\ run.pc = "idle"
    /\ run.n < MaxRuns
    /\ \E k \in StoreKeys :
         /\ run' = [NoRun EXCEPT !.pc = "unlinked", !.op = "delete", !.key = k,
                                 !.since = mcall.ops, !.n = run.n + 1]
         /\ store' = [store EXCEPT !.files[get_model_path(k[1], k[2])] = NoFile]
    /\ UNCHANGED <<peer, http, xt, avail, now, created, obj, last, calls, trained_ok, pipe, mcall, micro>>

\* lines 230-236: the entry is taken out of the index and the index written
DeleteEntry ==
    /\ run.pc = "unlinked"
    /\ LET k == model_key(run.key[1], run.key[2])
       IN  IF store.metadata[k].present
           THEN store' = _save_metadata([store EXCEPT !.metadata[k] = NoEntry,
                                                      !.order = DelKey(@, k)], "none")
           ELSE UNCHANGED store
    /\ run' = Return(TRUE)
    /\ UNCHANGED <<peer, http, xt, avail, now, created, obj, last, calls, trained_ok, pipe, mcall, micro>>

----------------------------------------------------------------------------
(* Extraction *)

MaxExtracts == 1

\* extract_time_series_data(data_source, data) on what a loader returned
ExtractCall ==
    /\ xt.n < MaxExtracts
    /\ \E src \in KnownSources, files \in LoaderFiles, tick \in {0, 1} :
         \E rows \in {ExtractTimeSeries(src, files, Stamp(now, micro), tick)} :
             /\ xt' = [op |-> "extract", src |-> src, files |-> files, rows |-> rows,
                       n |-> xt.n + 1]
             /\ micro' = micro + Len(MeanBlocks(BlockNames(src), files, 1, 1)) * tick
    /\ UNCHANGED <<peer, http, run, avail, now, created, obj, last, calls, trained_ok, pipe, store,
                   mcall>>

----------------------------------------------------------------------------
(* The prediction router: its module-level predictor and model_manager *)

MaxRequests == 2

\* steps=5 of the call in train_model
TrainSteps == 5

\* what POST /predict/train is given beside its two parameters
TrainInputs ==
    {inp \in PipeInputs({0, MinSamples}, {GoodEnv, BadEnv}) :
        /\ ~inp.xraise /\ ~inp.nan
        /\ (inp.load = "raise" => inp.k = 0 /\ inp.total_files = 0 /\ inp.env = GoodEnv)
        /\ (inp.load = "ok" => inp.total_files = 5)}

\* train_model(dataset, model): the status and the metadata of the response
train_model(dataset, model, inp, AV, t) ==
    IF dataset \notin {"modis", "merra", "alos"} THEN [status |-> 400, metadata |-> <<>>]
    ELSE IF model \notin {"auto", "arima", "prophet", "lstm"}
    THEN [status |-> 400, metadata |-> <<>>]
    ELSE LET result == predict_data_source(dataset, model, TrainSteps, inp, AV, t).envelope
         IN  IF result.success
             THEN [status |-> 200,
                   metadata |-> <<[dataset |-> <<dataset, "upper">>, model_used |-> model,
                                   training_samples |-> result.metadata[1].training_samples,
                                   confidence |-> result.metadata[1].confidence]>>]
             ELSE [status |-> 500, metadata |-> <<>>]

\* list_models: what it reports for each key of the index
list_models(st) ==
    [k \in ModelKeys |->
        [listed |-> st.metadata[k].present,
         last_updated |-> st.metadata[k].last_updated,
         training_samples |-> st.metadata[k].training_samples,
         file_size |-> st.metadata[k].file_size,
         exists |-> st.metadata[k].present
                    /\ model_exists(st, split_key(k)[1], split_key(k)[2])]]

\* POST /predict/train
TrainEndpoint ==
    /\ http.n < MaxRequests
    /\ \E dataset \in KnownSources \cup {"landsat"}, model \in Modes \cup {"svm"},
          inp \in TrainInputs :
         \E r \in {train_model(dataset, model, inp, avail, now)} :
             http' = [NoRequest EXCEPT !.ep = "train", !.status = r.status,
                         !.dataset = dataset, !.model = model,
                         !.metadata = r.metadata, !.pre = store, !.post = store,
                         !.n = http.n + 1]
    /\ UNCHANGED <<peer, xt, run, avail, now, created, obj, last, calls, trained_ok, pipe,
                   store, mcall, micro>>

\* DELETE /predict/models/{dataset}/{model_type}
DeleteEndpoint ==
    /\ http.n < MaxRequests
    /\ \E k \in StoreKeys, fault \in {"none", "unlink", "meta_open"} :
         \E r \in {delete_model(store, k[1], k[2], fault)} :
             /\ store' = r.store
             /\ http' = [NoRequest EXCEPT !.ep = "delete",
                            !.status = IF r.ret THEN 200 ELSE 404,
                            !.dataset = k[1], !.model = k[2], !.pre = store,
                            !.post = r.store,
                            !.again = (http.ep = "delete" /\ http.dataset = k[1]
                                       /\ http.model = k[2] /\ http.post = store),
                            !.before = http.status, !.n = http.n + 1]
    /\ UNCHANGED <<peer, xt, run, avail, now, created, obj, last, calls, trained_ok, pipe,
                   mcall, micro>>

----------------------------------------------------------------------------
(* A second ModelManager on the same models_dir: the blobs and the index
   file are shared, the in-memory index is its own *)

MaxPeerOps == 1

\* the store as the second instance sees it, and as the first one does
\* after a call of the second
AsPeer(st, pm) == [st EXCEPT !.metadata = pm.metadata, !.order = pm.order]
FromPeer(st, mine) == [st EXCEPT !.metadata = mine.metadata, !.order = mine.order]

\* ModelManager(models_dir): __init__ reads the index file
PeerOpen ==
    /\ ~peer.open
    /\ peer' = [open |-> TRUE, metadata |-> _load_metadata(store).entries,
                order |-> _load_metadata(store).order, n |-> 0]
    /\ UNCHANGED <<http, xt, run, avail, now, created, obj, last, calls, trained_ok,
                   pipe, store, mcall, micro>>

\* delete_model(dataset, model_type) on the second instance
PeerDelete ==
    /\ peer.open /\ peer.n < MaxPeerOps
    /\ \E k \in StoreKeys :
         \E r \in {delete_model(AsPeer(store, peer), k[1], k[2], "none")} :
             /\ store' = FromPeer(r.store, store)
             /\ peer' = [peer EXCEPT !.metadata = r.store.metadata,
                                     !.order = r.store.order, !.n = @ + 1]
    /\ UNCHANGED <<http, xt, run, avail, now, created, obj, last, calls, trained_ok,
                   pipe, mcall, micro>>

\* save_model(...) on the second instance
PeerSave ==
    /\ peer.open /\ peer.n < MaxPeerOps
    /\ \E k \in StoreKeys :
         \E r \in {save_model(AsPeer(store, peer), k[1], k[2],
                              [id |-> 2, picklable |-> TRUE],
                              [sized |-> TRUE, rows |-> MinSamples], [aic |-> 1],
                              "none", Stamp(now, micro))} :
             /\ store' = FromPeer(r.store, store)
             /\ peer' = [peer EXCEPT !.metadata = r.store.metadata,
                                     !.order = r.store.order, !.n = @ + 1]
             /\ micro' = micro + r.reads
    /\ UNCHANGED <<http, xt, run, avail, now, created, obj, last, calls, trained_ok,
                   pipe, mcall>>

----------------------------------------------------------------------------
(* Specifications *)

\* one PredictiveModel, trained once on any dataset
Next == SelectCall \/ TrainFirst \/ PredictCall
Spec == InitObj /\ [][Next]_vars

\* one PredictiveModel over a sequence of train() and predict() calls
NextObj == TrainAgain \/ PredictCall \/ PredictDataSourceCall
SpecObj == InitObj /\ [][NextObj]_vars

\* the orchestrator
NextPipe == PredictDataSourceCall \/ PredictAllStart \/ PredictAllSource \/ PredictAllReturn
SpecPipe == InitObj /\ [][NextPipe]_vars

\* one ModelManager over a sequence of save, delete and load calls
NextStore == SaveModel \/ DeleteModel \/ LoadModel
SpecStore == InitStore /\ [][NextStore]_vars

\* one ModelManager while time passes
NextAge == Tick \/ SaveQuiet \/ IsModelFresh \/ CleanupOldModels
SpecAge == InitAge /\ [][NextAge]_vars

\* two callers of one ModelManager: one inside save_model or delete_model,
\* the other making whole calls
NextSteps ==
    \/ SaveOpen \/ SaveDump \/ SaveEnter \/ SaveMeta
    \/ DeleteUnlink \/ DeleteEntry
    \/ SaveQuiet \/ DeleteModel \/ LoadModel \/ IsModelFresh
SpecSteps == InitStore /\ [][NextSteps]_vars

\* the extraction of one TimeSeriesPredictor
NextExtract == ExtractCall
SpecExtract == InitStore /\ [][NextExtract]_vars

\* the router's endpoints that train and delete
NextRouter == TrainEndpoint \/ DeleteEndpoint
SpecRouter == InitStore /\ [][NextRouter]_vars

\* two ModelManager instances on one models_dir
NextTwo ==
    \/ SaveQuiet \/ DeleteModel \/ IsModelFresh
    \/ PeerOpen \/ PeerDelete \/ PeerSave
SpecTwo == InitStore /\ [][NextTwo]_vars

\* the DELETE endpoint on a model_manager that has saved models
NextDelete == SaveQuiet \/ DeleteEndpoint
SpecDelete == InitStore /\ [][NextDelete]_vars

----------------------------------------------------------------------------
(* Properties *)

\* the number of rows of d that carry a value
Valid(d) == Cardinality({i \in 1..d.rows : Rows(d)[i].ok})

\* the latest date among the rows of d that carry a value
LastTrainingTs(d) ==
    CHOOSE t \in {Rows(d)[i].date : i \in {j \in 1..d.rows : Rows(d)[j].ok}} :
        \A i \in 1..d.rows : Rows(d)[i].ok => Rows(d)[i].date <= t

\* the auto policy as the specification lists it, rule by rule
AutoReference(n, is_stationary, has_seasonality, AV) ==
    CASE n < 10 /\ "arima" \in AV                      -> "arima"
      [] ~(n < 10 /\ "arima" \in AV)
         /\ n >= 30 /\ "lstm" \in AV /\ ~is_stationary -> "lstm"
      [] ~(n < 10 /\ "arima" \in AV)
         /\ ~(n >= 30 /\ "lstm" \in AV /\ ~is_stationary)
         /\ has_seasonality /\ "prophet" \in AV        -> "prophet"
      [] OTHER -> IF "arima" \in AV THEN "arima"
                  ELSE IF "prophet" \in AV THEN "prophet"
                  ELSE IF "lstm" \in AV THEN "lstm"
                  ELSE "configuration error"

\* the selector was run in this call
Selected ==
    \/ last.op = "select"
    \/ last.op = "train" /\ last.err # "insufficient_data"

\* C1: in auto mode the selector returns the family of the first matching
\* rule of the policy (tiny sample -> arima; long and not stationary ->
\* lstm; seasonal -> prophet; else arima, prophet, lstm, first available),
\* raises when no family is available, and returns only available families.
C1_AutoPolicy ==
    Selected /\ last.pre.model_type = "auto" =>
        LET want == AutoReference(last.n, last.stat, last.seas, avail)
        IN  /\ want = "configuration error" =>
                last.sel = NoFamily /\ ~last.ok /\ last.err = "no_models"
            /\ want # "configuration error" => last.sel = want /\ last.sel \in avail

C1_Witness ==
    /\ last.op = "train" /\ last.pre.model_type = "auto" /\ last.ok
    /\ last.n >= 30 /\ last.stat /\ last.seas
    /\ avail = Families /\ last.sel = "prophet"

\* the fixed fallback chain of each family
Chain(f) ==
    CASE f = "lstm"    -> <<"arima", "prophet">>
      [] f = "prophet" -> <<"arima", "lstm">>
      [] f = "arima"   -> <<"prophet", "lstm">>

\* C2: an explicit request is served by the requested family when it is
\* available, else by the first available family of its chain; only with no
\* family available does the call end in a configuration error, and train()
\* never fits a family that is not available.
C2_ExplicitRequest ==
    /\ Selected /\ last.pre.model_type \in Families =>
        LET f == last.pre.model_type
        IN  /\ f \in avail => last.sel = f
            /\ f \notin avail /\ Chain(f)[1] \in avail => last.sel = Chain(f)[1]
            /\ f \notin avail /\ Chain(f)[1] \notin avail /\ Chain(f)[2] \in avail =>
                   last.sel = Chain(f)[2]
            /\ last.err \in {"no_models", "not_available"} => avail = {}
    /\ last.op = "train" =>
        /\ obj.model # last.pre.model => obj.model.family \in avail
        /\ obj.scaler # last.pre.scaler => "lstm" \in avail

C2_Witness ==
    /\ last.op = "train" /\ last.pre.model_type = "lstm" /\ avail = {"prophet"}
    /\ last.sel = "prophet" /\ last.ok /\ obj.model.family = "prophet"

\* C3: an object created with mode auto chooses, in every train() call,
\* what the auto policy gives for that call's dataset.
C3_AutoEveryCall ==
    last.op = "train" /\ created = "auto" /\ last.err # "insufficient_data"
    /\ avail # {} =>
        last.sel = AutoReference(last.n, last.stat, last.seas, avail)

\* C4: predict_all_sources returns one entry per source, in the order
\* modis, merra, alos, whatever the others did: a failing source's entry is
\* a failure with an error text, every other entry is the success envelope
\* the source's own pipeline gives.
C4_PartialFailureIsolation ==
    /\ pipe.pc = "all" => Len(pipe.predictions) = pipe.i - 1
    /\ pipe.pc = "all_done" =>
        /\ Len(pipe.predictions) = 3
        /\ pipe.envelope[1].success /\ pipe.envelope[1].data = pipe.predictions
        /\ \A i \in 1..3 :
            LET e == pipe.predictions[i].entry
                inp == pipe.inputs[i].inp
                own == predict_data_source(<<"modis", "merra", "alos">>[i],
                                           pipe.model_type, pipe.steps, inp, avail, now)
            IN  /\ pipe.predictions[i].source = <<"modis", "merra", "alos">>[i]
                /\ e = own.envelope
                /\ inp.load = "raise" \/ inp.xraise \/ own.stage # "done" =>
                       ~e.success /\ e.error # <<>> /\ e.data = <<>>
                /\ own.stage = "done" =>
                    /\ e.success /\ e.data # <<>> /\ e.metadata # <<>>
                    /\ Len(e.data[1].predicted_values) = pipe.steps
                    /\ e.data[1].source = SourceTag(<<"modis", "merra", "alos">>[i])

C4_Witness ==
    /\ pipe.pc = "all_done"
    /\ pipe.predictions[1].entry.success
    /\ ~pipe.predictions[2].entry.success
    /\ pipe.predictions[3].entry.success

\* C5: predict_data_source lets no exception out: it returns a failure
\* envelope (success false, an error text) or a success envelope whose data
\* holds predicted_values, timestamps, model_used and source.
C5_NoExceptionEscapes ==
    pipe.pc = "single" =>
        LET e == pipe.envelope[1]
        IN  /\ ~pipe.raised
            /\ e.success = (last.stage = "done")
            /\ ~e.success => e.error # <<>> /\ e.data = <<>>
            /\ e.success =>
                /\ Len(e.data) = 1
                /\ DOMAIN e.data[1] =
                       {"predicted_values", "timestamps", "model_used", "source"}
                /\ e.data[1].predicted_values = last.out.predicted_values
                /\ e.data[1].model_used = last.out.model_used

C5_Witness ==
    /\ pipe.pc = "single" /\ ~pipe.envelope[1].success
    /\ pipe.envelope[1].message[2] = "landsat"

\* C6: with fewer than 3 values train() fails with the insufficient-data
\* error before a family is selected or fitted: is_trained, model and
\* model_type stay as they were, predict_data_source returns a failure
\* envelope, and the persistence store gets no record.
C6_InsufficientData ==
    /\ last.op \in {"train", "pipeline"} /\ last.stage \in {"none", "train"}
       /\ Valid(last.d) < 3 =>
        /\ ~last.ok /\ last.err = "insufficient_data" /\ last.sel = NoFamily
        /\ obj.is_trained = last.pre.is_trained
        /\ obj.model = last.pre.model
        /\ obj.model_type = last.pre.model_type
    /\ last.op = "pipeline" /\ last.stage \in {"length", "train"}
       /\ Valid(last.d) < 3 =>
        /\ pipe.pc = "single" /\ ~pipe.raised
        /\ ~pipe.envelope[1].success /\ pipe.envelope[1].error # <<>>
        /\ store = EmptyStore

C6_Witness ==
    /\ last.op = "pipeline" /\ last.stage = "train" /\ last.d.rows = 3
    /\ Valid(last.d) = 2 /\ ~pipe.envelope[1].success

\* C7: a train() call that fails leaves the object exactly as it was.
C7_FailedTrainLeavesObject ==
    last.op = "train" /\ ~last.ok => obj = last.pre

\* C8: predict() on an object no train() call of which has succeeded fails
\* with the usage error, returns no forecast and changes nothing.
C8_PredictUntrained ==
    last.op = "predict" /\ ~trained_ok =>
        /\ ~last.ok /\ last.err = "not_trained" /\ last.out = NoOut
        /\ obj = last.pre

C8_Witness ==
    /\ last.op = "predict" /\ ~trained_ok /\ calls = 2
    /\ obj.model_type = "lstm" /\ obj.scaler.fitted /\ created = "auto"

\* the forecast has one value and one date per step, the dates being the
\* `steps` days after the last date of the data the model was fitted on
ForecastShape ==
    /\ Len(last.out.predicted_values) = last.steps
    /\ Len(last.out.timestamps) = last.steps
    /\ \A i \in 1..Len(last.out.timestamps) :
         last.out.timestamps[i] = Day(LastTrainingTs(obj.model.on)) + i

\* C9 as stated: after every successful train(), predict(horizon) returns
\* horizon values and horizon dates, one day apart, the first the day after
\* the last timestamp of the training dataset.
C9_Original ==
    last.op = "predict" /\ last.ok => ForecastShape

\* C9, amended: the same, for a dataset whose date column train() is given
\* (the series is then indexed by its dates).
C9_ForecastDates ==
    last.op = "predict" /\ last.ok /\ obj.model.on.dated => ForecastShape

C9_Witness ==
    /\ last.op = "predict" /\ last.ok /\ last.steps > 1
    /\ obj.model_type = "lstm" /\ obj.model.on.dated
    /\ obj.model.on.order = "desc" /\ obj.model.on.miss

\* C10: load_model returns for every key what the most recent save_model
\* that succeeded for that key was given, unless a delete_model of the key
\* followed it, and not-found otherwise; calls on other keys change nothing
\* of that.
C10_LoadReturnsLastSave ==
    \A k \in StoreKeys : load_model(store, k[1], k[2]) = mcall.saved[k]

\* a is earlier than b
StampLess(a, b) == a.t < b.t \/ (a.t = b.t /\ a.us < b.us)

\* C11: a second save_model for the same key with the same model, dataset
\* and metadata, right after a first one that succeeded, leaves one record
\* for the key: its last_updated is strictly later than after the first
\* call, its training_samples and file_size are what they were.
C11_SaveTwice ==
    mcall.op = "save" /\ mcall.twice =>
        LET k == model_key(mcall.key[1], mcall.key[2])
            e == store.metadata[k]
            e0 == mcall.pre.metadata[k]
        IN  /\ e.present /\ e0.present
            /\ Cardinality({i \in 1..Len(store.order) : store.order[i] = k}) = 1
            /\ StampLess(fromisoformat(e0.last_updated), fromisoformat(e.last_updated))
            /\ e.training_samples = e0.training_samples
            /\ e.file_size = e0.file_size

\* C12: load_model returns not-found, and does not raise, for a key whose
\* blob is missing, with or without an index entry; it gives a signal other
\* than not-found exactly when the blob is there and cannot be unpickled.
C12_CorruptionDistinct ==
    mcall.op = "load" =>
        LET f == mcall.pre.files[get_model_path(mcall.key[1], mcall.key[2])]
        IN  /\ f.state = "absent" => mcall.result = NotFound
            /\ f.state = "written" => mcall.result.found
            /\ f.state = "partial" => ~mcall.result.found /\ mcall.result # NotFound


\* the time from b to a is at most d whole days
WithinDays(a, b, d) ==
    \/ a.t - b.t < d * OneDay
    \/ (a.t - b.t = d * OneDay /\ a.us <= b.us)

\* C13: is_model_fresh(source, family, max_age_days) is true if and only if
\* a record exists for the key and the time elapsed since its last_updated
\* is at most max_age_days days.
C13_FreshIff ==
    mcall.op = "fresh" =>
        LET e == mcall.pre.metadata[model_key(mcall.key[1], mcall.key[2])]
        IN  e.present /\ e.last_updated.ok =>
                (mcall.ret <=> WithinDays(mcall.at, fromisoformat(e.last_updated),
                                          mcall.max_age_days))

\* the records a cleanup took out of the index
Removed == {k \in ModelKeys : mcall.pre.metadata[k].present /\ ~store.metadata[k].present}

\* C14: cleanup_old_models(max_age_days) removes every record older than
\* the threshold and no other record, and returns the number of records it
\* removed; a delete that fails or a last_updated that cannot be read for
\* one record does not stop the other records from being processed.
C14_CleanupAll ==
    mcall.op = "cleanup" =>
        /\ mcall.count = Cardinality(Removed)
        /\ \A k \in ModelKeys :
               LET e == mcall.pre.metadata[k]
               IN  e.present /\ e.last_updated.ok =>
                     IF WithinDays(mcall.at, fromisoformat(e.last_updated),
                                   mcall.max_age_days)
                     THEN store.metadata[k].present
                     ELSE k \notin mcall.faults => ~store.metadata[k].present

\* C17: save_model reports every failure of the blob or of the index write
\* as False: when it returns True, both the blob and the entry of the key in
\* the index file on disk have been written.
C17_TrueMeansWritten ==
    mcall.op = "save" /\ mcall.ret =>
        LET k == model_key(mcall.key[1], mcall.key[2])
        IN  /\ store.files[get_model_path(mcall.key[1], mcall.key[2])].state = "written"
            /\ store.metadata_file.readable
            /\ store.metadata_file.entries[k].present
            /\ store.metadata_file.entries[k] = store.metadata[k]

\* C15: at every point of save_model and delete_model the only disagreement
\* between the blobs and the index is an index entry without blob: every
\* blob has an index entry, and the entry describes the blob.
C15_BlobHasEntry ==
    \A k \in StoreKeys :
        LET f == store.files[get_model_path(k[1], k[2])]
            e == store.metadata[model_key(k[1], k[2])]
        IN  f.state # "absent" =>
                /\ e.present
                /\ f.state = "written"
                /\ e.file_size = FileSize(f.data)
                /\ e.training_samples = f.data.training_data.rows
                /\ e.metadata = f.data.metadata

\* C16: the operations on one key exclude each other: while a save_model
\* has started writing the blob of a key and has not finished updating the
\* index, no other load_model, is_model_fresh, delete_model or save_model
\* acts on that key.
C16_Exclusive ==
    (run.op = "save" /\ run.pc \in {"opened", "dumped", "entered"}
        /\ mcall.ops > run.since) => mcall.key # run.key

\* the name a family has in model_used
DisplayName(f) ==
    CASE f = "arima" -> "ARIMA" [] f = "prophet" -> "Prophet" [] f = "lstm" -> "LSTM"
      [] OTHER -> ""

\* C18: when the selector puts another family in the place of a requested
\* one that is not available, the logged warning names the family that is
\* used, and model_used names the family that was trained.
C18_FallbackAccurate ==
    /\ (last.op = "select" /\ created # "auto" /\ last.sel # created)
            => last.warned = last.sel
    /\ (last.op = "predict" /\ last.ok)
            => last.out.model_used[1] = DisplayName(obj.model.family)

\* the loader handed over at least one mean_value
HasValues == MeanBlocks(BlockNames(xt.src), xt.files, 1, 1) # <<>>

\* C19: no source supplies real timestamps; with or without metric values
\* extract_time_series_data returns a placeholder series whose timestamps
\* are one day apart.
C19_DailyPlaceholder ==
    xt.op = "extract" =>
        /\ Len(xt.rows) >= 1
        /\ \A i \in 1..(Len(xt.rows) - 1) :
               /\ xt.rows[i + 1].date.t = xt.rows[i].date.t + OneDay
               /\ xt.rows[i + 1].date.us = xt.rows[i].date.us

\* C20: the dataset handed to training is a TrainingDataset: its points
\* belong to one metric and its timestamps increase strictly.
C20_TrainingDataset ==
    xt.op = "extract" =>
        /\ \A i, j \in 1..Len(xt.rows) : xt.rows[i].metric = xt.rows[j].metric
        /\ \A i \in 1..(Len(xt.rows) - 1) :
               StampLess(xt.rows[i].date, xt.rows[i + 1].date)

\* C21: in every success envelope of predict_data_source the confidence is
\* min(0.95, 0.7 + n/100), n being the training_samples it reports; it lies
\* between 0.73 and 0.95 and is 0.95 from n = 25 on.
C21_Confidence ==
    pipe.pc = "single" /\ pipe.envelope[1].success =>
        LET m == pipe.envelope[1].metadata[1]
        IN  /\ m.confidence = Min(95, 70 + m.training_samples)
            /\ m.confidence >= 73 /\ m.confidence <= 95
            /\ m.training_samples >= 25 => m.confidence = 95

\* C22: the stationarity flag the selector uses is true exactly when the
\* ADF backend is available, the series has at least 10 points, the test
\* completes and its p-value is below 0.05; otherwise it is false.
C22_Stationarity ==
    last.op = "select" =>
        (last.stat <=> /\ "arima" \in avail
                       /\ last.n >= 10
                       /\ last.adf # AdfRaises
                       /\ last.adf < 5)

C22_Witness ==
    /\ last.op = "select" /\ last.stat /\ last.n >= 10 /\ last.adf = 1

\* C23: after a successful POST /predict/train the trained model has been
\* saved: the store holds a record for the dataset, which list_models
\* reports and load_model returns.
C23_TrainSaves ==
    http.ep = "train" /\ http.status = 200 =>
        \E k \in StoreKeys :
            /\ k[1] = http.dataset
            /\ list_models(store)[model_key(k[1], k[2])].listed
            /\ load_model(store, k[1], k[2]).found

\* C24: when all 18 grid fits of a train call fail, the order (1,1,1) is
\* fitted on that call's dataset, and when that fails too the call fails;
\* so the model held after a train call that returned normally is one
\* fitted on that call's dataset, on a fresh object and on one trained
\* before.
C24_ModelOfThisCall ==
    last.op = "train" /\ last.ok /\ last.sel = "arima" =>
        /\ obj.is_trained
        /\ obj.model.family = "arima" /\ obj.model.fitted
        /\ obj.model.on = last.d

\* the orders of the grid whose fit succeeded in the last train call, and
\* the one with the smallest AIC, the earliest of the sweep on ties
GoodFits ==
    {i \in 1..Len(Orders) :
        GridFit(last.grid, Orders[i]).ok /\ ~GridFit(last.grid, Orders[i]).nan}

BestFit ==
    CHOOSE i \in GoodFits :
        \A j \in GoodFits :
            \/ GridFit(last.grid, Orders[i]).aic < GridFit(last.grid, Orders[j]).aic
            \/ /\ GridFit(last.grid, Orders[i]).aic = GridFit(last.grid, Orders[j]).aic
               /\ i <= j

\* C25: _train_arima sweeps the 18 orders in a fixed sequence, skips the
\* fits that fail and ends holding the fit with the smallest AIC among the
\* successful ones, the earliest on ties; the order and the aic it reports
\* are those of the model it holds.
C25_GridMinimum ==
    last.op = "train" /\ last.ok /\ last.sel = "arima" =>
        /\ last.ret.order = obj.model.order
        /\ last.ret.aic = obj.model.aic
        /\ GoodFits # {} =>
              /\ obj.model.order = Orders[BestFit]
              /\ obj.model.aic = GridFit(last.grid, Orders[BestFit]).aic

\* C26: _train_lstm uses the window length L = min(10, floor(n/3)) and
\* n - L windows; it fails with the insufficient-data error exactly when
\* there are fewer than 5 windows, which for n >= 3 is when n < 7; on
\* success the sequence length it records and reports is that L, the one
\* predict reads for its rollout window.
C26_LstmWindows ==
    (last.op = "train" /\ last.sel = "lstm" /\ "lstm" \in avail /\ last.n >= 3) =>
        LET L == Min(10, last.n \div 3)
        IN  /\ (last.err = "lstm_insufficient") <=> (last.n - L < 5)
            /\ (last.err = "lstm_insufficient") <=> (last.n < 7)
            /\ last.ok =>
                  /\ last.ret.seq_length = L
                  /\ obj.seq_length = L
                  /\ _predict_lstm(obj, 1, now).ok

C26_Witness ==
    /\ last.op = "train" /\ last.sel = "lstm" /\ last.ok /\ obj.seq_length = 10

\* C27: a save_model that fails for a key with a saved record leaves the
\* record as it was: load_model returns what it returned before and the
\* index entry of the key is unchanged.
C27_FailedSaveKeepsRecord ==
    (/\ mcall.op = "save" /\ ~mcall.ret
     /\ mcall.pre.metadata[model_key(mcall.key[1], mcall.key[2])].present
     /\ load_model(mcall.pre, mcall.key[1], mcall.key[2]).found) =>
        /\ load_model(store, mcall.key[1], mcall.key[2])
              = load_model(mcall.pre, mcall.key[1], mcall.key[2])
        /\ store.metadata[model_key(mcall.key[1], mcall.key[2])]
              = mcall.pre.metadata[model_key(mcall.key[1], mcall.key[2])]

\* C28: whenever is_model_fresh returns true for a key, load_model for the
\* key returns a record, after any sequence of save_model, delete_model
\* and cleanup_old_models calls, those of a second ModelManager on the
\* same directory included.
C28_FreshImpliesLoad ==
    mcall.op = "fresh" /\ mcall.ret =>
        load_model(mcall.pre, mcall.key[1], mcall.key[2]).found

\* the blobs and the index entries of the keys other than that of the
\* last request are what they were before it
OtherKeysKept ==
    \A k \in StoreKeys :
        k # <<http.dataset, http.model>> =>
            /\ store.files[get_model_path(k[1], k[2])]
                  = http.pre.files[get_model_path(k[1], k[2])]
            /\ store.metadata[model_key(k[1], k[2])]
                  = http.pre.metadata[model_key(k[1], k[2])]

\* after the last request its key has no record
KeyGone ==
    /\ ~load_model(store, http.dataset, http.model).found
    /\ ~is_model_fresh(store, http.dataset, http.model, FreshDays, Stamp(now, micro))

\* the last request was a DELETE and the store is as it left it
Deleted == http.ep = "delete" /\ store = http.post

\* C29 as stated: delete_model returns True whether or not a record
\* existed, leaves the other keys alone, and afterwards the key is not
\* found and not fresh; a second call gives the same result and changes
\* nothing; the DELETE endpoint answers success for a key never saved.
C29_Original ==
    Deleted =>
        /\ http.status = 200
        /\ OtherKeysKept /\ KeyGone
        /\ http.again => http.status = http.before /\ store = http.pre

\* C29: as above when the blob of the key can be unlinked.  When unlinking
\* an existing blob fails, delete_model returns False, the endpoint answers
\* 404 and nothing is changed.
C29_DeleteFrame ==
    Deleted =>
        /\ http.status \in {200, 404}
        /\ http.status = 404 =>
              /\ model_exists(http.pre, http.dataset, http.model)
              /\ store = http.pre
        /\ http.status = 200 => OtherKeysKept /\ KeyGone
        /\ (/\ ~model_exists(http.pre, http.dataset, http.model)
            /\ ~http.pre.metadata[model_key(http.dataset, http.model)].present) =>
              http.status = 200 /\ store = http.pre
        /\ http.again /\ http.before = 200 =>
              http.status = 200 /\ store = http.pre

C29_Witness ==
    /\ Deleted /\ http.status = 200
    /\ http.pre.metadata[model_key(http.dataset, http.model)].present
    /\ \E k \in StoreKeys :
          /\ k # <<http.dataset, http.model>>
          /\ store.metadata[model_key(k[1], k[2])].present

\* C30: under auto, for every availability set and every n >= 3, the
\* recurrent family is never selected for a dataset with n < 7, and the
\* call never fails with the recurrent family's insufficient-data error.
C30_AutoMeetsMinimum ==
    last.op = "train" /\ created = "auto" /\ last.n >= 3 =>
        /\ ~(last.sel = "lstm" /\ last.n < 7)
        /\ last.err # "lstm_insufficient"
============================================================================
